---------------------------- MODULE Spec2Model ----------------------------
(***************************************************************************)
(* Order lifecycle of tastyworks_api (models/order.py): an Order instance  *)
(* owned by the caller, mutated in place by route / update / cancel /      *)
(* live_sync, each of which awaits the REST collaborator (tw_api).         *)
(*                                                                         *)
(* Six specifications share the variables:                                 *)
(*   Spec        the order lifecycle (route, update, cancel, live_sync,    *)
(*               is_received, is_live, total_fees), one call at a time;    *)
(*   SessionSpec TastyAPISession.start and is_active                       *)
(*               (tastyworks_api/session.py);                              *)
(*   ExecSpec    Leg.is_executable, add_leg, Order.is_executable and       *)
(*               to_order_json on orders the caller may build;             *)
(*   ParseSpec   Order.parse_from_api on the two shapes of a remote        *)
(*               record;                                                   *)
(*   ConcSpec    live_sync calls on one Order that overlap at their        *)
(*               await of the live-orders listing;                         *)
(*   StreamSpec  DataStreamer (streamer.py): connection, subscription      *)
(*               messages, listen.                                         *)
(*                                                                         *)
(* Python values are modelled as string tokens: None is "None", booleans   *)
(* are "True"/"False", integers and decimals are their canonical text.     *)
(* Lists of legs are sequences of records.  A remote record (a dict) is a  *)
(* record whose absent keys read as None, as dict.get does.                *)
(***************************************************************************)
EXTENDS Integers, Sequences, FiniteSets, TLC

VARIABLES
    order,      \* the Order instance (all dataclass fields)
    new_leg,    \* a Leg instance the caller holds, not yet in the order
    session,    \* the TastyAPISession instance (all dataclass fields)
    tries,      \* the local variable tries of TastyAPISession.start
    pc,         \* position of the running coroutine: "idle" or the await it is suspended on
    ctx,        \* which caller the pending live_sync returns to
    op,         \* the top-level method the caller invoked last
    dry,        \* the is_dry_run argument of the route in progress
    before,     \* snapshot: the order (the session, in SessionSpec; the connection and
                \*   the argument, in StreamSpec) when the top-level method was entered
    calls,      \* snapshot: the calls awaited by the top-level method, in order
    ret,        \* outcome of the top-level method: "True", "False", "raise", or "None" while running
    step,       \* the statement block that ran last
    sync,       \* snapshot of the last live_sync: [self, found, entry, ret, asked]:
                \*   the order it ran on, len(match), match[0] when merged, its outcome, whether it queried
    merged,     \* snapshot of the last update_fields: [self, newer, out]
    resp,       \* snapshot: the last route-order / cancel-order answer handed to
                \*   parse_from_api (the last session answer, in SessionSpec)
    returned,   \* the structure the last to_order_json / parse_from_api call returned
    tasks,      \* ConcSpec: the live_sync coroutines on the order, each with its position
                \*   and the listing it was answered with
    remote,     \* ConcSpec: the version of the order the remote system holds
    streamer,   \* the DataStreamer instance (its attributes)
    transport,  \* the streaming connection: its state, the messages that arrived on it,
                \*   how many of them were handed over, the messages published on it
    listener    \* the async generator returned by listen(): its position, what it yielded

\* the variables of ConcSpec and of StreamSpec
concvars == <<tasks, remote>>

streamvars == <<streamer, transport, listener>>

vars == <<order, new_leg, session, tries, pc, ctx, op, dry, before, calls, ret, step, sync,
          merged, resp, returned, tasks, remote, streamer, transport, listener>>

-----------------------------------------------------------------------------
(* Bounds of the model *)

\* entries in one live-orders listing
MaxItems == 2

\* value of tries beyond which TastyAPISession.start is not followed further
MaxTries == 5

\* legs of an order beyond which add_leg is not followed further
MaxLegs == 2

\* fills the remote system may add to the order while live_sync calls overlap
MaxVersions == 2

\* messages that arrive on the streaming connection
MaxMsgs == 3

\* messages published on the streaming connection beyond which no other is followed
MaxPublished == 2

-----------------------------------------------------------------------------
(* Python values *)

None == "None"

\* bool(v) for the tokens used here: None, False, 0, '' and [] are falsy
Truthy(v) == v \notin {"None", "False", "0", "", "[]"}

\* isinstance(v, int) for the id tokens used here
IsInt(v) == v \in {"0", "1", "2"}

(* Enumerations: the wire values each Enum accepts; Enum(x) raises ValueError otherwise *)
OrderType == {"Market", "Limit", "Stop", "Stop Limit", "Notional Market"}
OrderPriceEffect == {"Credit", "Debit"}
OrderStatus == {"Routed", "Received", "Cancelled", "Cancel Requested", "Filled",
                "Expired", "Live", "Rejected", "Contingent"}
TimeInForce == {"Day", "GTC", "GTD", "Ext"}
InstrumentType == {"Equity", "Future", "Equity Option", "Future Option", "Cryptocurrency"}
OrderAction == {"Buy to Open", "Sell to Open", "Buy to Close", "Sell to Close"}

\* dict.get(key): None when the key is absent
Get(d, k) == IF k \in DOMAIN d THEN d[k] ELSE None

\* Decimal(text): the numeric value, written canonically
Decimal(s) ==
    CASE s = "100"    -> "100"
      [] s = "100.00" -> "100"
      [] s = "101.50" -> "101.5"
      [] s = "101.5"  -> "101.5"
      [] s = "95"     -> "95"
      [] s = "1"      -> "1"
      [] OTHER        -> s

\* '{:.2f}'.format(decimal)
Format2f(d) ==
    CASE d = "100"   -> "100.00"
      [] d = "101.5" -> "101.50"
      [] d = "95"    -> "95.00"
      [] d = "1"     -> "1.00"
      [] OTHER       -> d

\* datetime.fromisoformat(text) / datetime.fromtimestamp(ms/1000): a datetime object
DateTime(s) == "dt(" \o s \o ")"

\* [OrderError(**e) for e in errors], on the tokens used here
OrderErrors(s) ==
    CASE s = "[]"   -> "[]"
      [] s = "[e1]" -> "[OrderError(e1)]"
      [] s = "[e2]" -> "[OrderError(e2)]"
      [] OTHER      -> s

\* [OrderWarning(**w) for w in warnings], on the tokens used here
OrderWarnings(s) ==
    CASE s = "[]"   -> "[]"
      [] s = "[w1]" -> "[OrderWarning(w1)]"
      [] OTHER      -> s

-----------------------------------------------------------------------------
(* Leg *)

Leg(instrument_type, symbol, action, quantity, fills, remaining_quantity) ==
    [instrument_type |-> instrument_type, symbol |-> symbol, action |-> action,
     quantity |-> quantity, fills |-> fills, remaining_quantity |-> remaining_quantity]

\* Leg.parse_from_order raises ValueError on an unknown instrument type or action
LegParseOk(leg) ==
    /\ Get(leg, "instrument_type") \in InstrumentType
    /\ Get(leg, "action") \in OrderAction

LegParseFromOrder(leg) ==
    Leg(Get(leg, "instrument_type"), Get(leg, "symbol"), Get(leg, "action"),
        Get(leg, "quantity"), Get(leg, "fills"), Get(leg, "remaining_quantity"))

\* Leg.to_order_json raises AttributeError when action or instrument_type is None
LegToJsonOk(leg) == leg.action # None /\ leg.instrument_type # None

LegToOrderJson(leg) ==
    [action |-> leg.action, instrument_type |-> leg.instrument_type,
     symbol |-> leg.symbol, quantity |-> leg.quantity]

LegIsExecutable(leg) ==
    /\ Truthy(leg.instrument_type)
    /\ leg.symbol # ""
    /\ Truthy(leg.action)
    /\ Truthy(leg.quantity)

-----------------------------------------------------------------------------
(* Order *)

\* OrderPriceEffectSign with its two signs exchanged
OrderPriceEffectSignFlipped == [Credit |-> -1, Debit |-> 1]

\* class OrderPriceEffectSign(Enum): subscripting it with another name raises KeyError
OrderPriceEffectSign == [Credit |-> 1, Debit |-> -1]

OrderFields ==
    {"account_number", "type", "time_in_force", "legs", "source",
     "id", "price", "price_effect", "stop_trigger", "status", "contingent_status",
     "size", "gtc_date", "underlying_symbol", "underlying_type", "cancellable",
     "editable", "edited", "cancelled_at", "received_at", "updated_at", "terminal_at",
     "bp", "fees", "warnings", "errors", "is_dry_run"}

\* the dataclass defaults: legs is an empty list, source is 'WBT', the rest None
OrderDefault(k) ==
    CASE k = "legs"   -> <<>>
      [] k = "source" -> "WBT"
      [] OTHER        -> None

\* Order(**given)
Order(given) ==
    [k \in OrderFields |-> IF k \in DOMAIN given THEN given[k] ELSE OrderDefault(k)]

\* v is None, for the value v of field k (legs is always a list)
IsNone(k, v) == IF k = "legs" THEN FALSE ELSE v = None

\* data.get('order') is truthy: the wrapped envelope of a routed / dry-run order
IsRouted(data) == "order" \in DOMAIN data

RecordOf(data) == IF IsRouted(data) THEN data.order ELSE data

\* parse_from_api, were it to take any status (no OrderStatus conversion) and any
\* leg (no InstrumentType / OrderAction conversion)
ParseOkLenient(data) ==
    LET o == RecordOf(data) IN
    /\ Get(o, "time_in_force") \in TimeInForce
    /\ Get(o, "order_type") \in OrderType
    /\ Get(o, "underlying_instrument_type") \in InstrumentType
    /\ Get(o, "price_effect") \in OrderPriceEffect \/ ~Truthy(Get(o, "price_effect"))

\* parse_from_api returns (every Enum conversion succeeds) rather than raises
ParseOk(data) ==
    LET o == RecordOf(data) IN
    /\ Get(o, "time_in_force") \in TimeInForce
    /\ Get(o, "order_type") \in OrderType
    /\ Get(o, "underlying_instrument_type") \in InstrumentType
    /\ Get(o, "price_effect") \in OrderPriceEffect \/ ~Truthy(Get(o, "price_effect"))
    /\ Get(o, "status") \in OrderStatus
    /\ \A i \in 1..Len(o.legs) : LegParseOk(o.legs[i])

OptDateTime(v) == IF Truthy(v) THEN DateTime(v) ELSE None

\* parse_from_api dropping the errors of the envelope
RoutedFieldsNoErrors(data) ==
    [bp   |-> Get(data, "buying_power_effect"),
     fees |-> Get(data, "fee_calculation")]
    @@ (IF Get(data, "warnings") # None
        THEN [warnings |-> OrderWarnings(data.warnings)] ELSE <<>>)

\* parse_from_api dropping the fee calculation of the envelope
RoutedFieldsNoFees(data) ==
    [bp   |-> Get(data, "buying_power_effect")]
    @@ (IF Get(data, "warnings") # None
        THEN [warnings |-> OrderWarnings(data.warnings)] ELSE <<>>)
    @@ (IF Get(data, "errors") # None
        THEN [errors |-> OrderErrors(data.errors)] ELSE <<>>)

\* the fields parse_from_api adds for a routed / dry-run envelope only
RoutedFields(data) ==
    [bp   |-> Get(data, "buying_power_effect"),
     fees |-> Get(data, "fee_calculation")]
    @@ (IF Get(data, "warnings") # None
        THEN [warnings |-> OrderWarnings(data.warnings)] ELSE <<>>)
    @@ (IF Get(data, "errors") # None
        THEN [errors |-> OrderErrors(data.errors)] ELSE <<>>)

ParseFromApi(data) ==
    LET o == RecordOf(data)
        new_data ==
            [id                |-> IF Truthy(Get(o, "id")) THEN Get(o, "id") ELSE None,
             account_number    |-> Get(o, "account_number"),
             time_in_force     |-> Get(o, "time_in_force"),
             type              |-> Get(o, "order_type"),
             size              |-> Get(o, "size"),
             underlying_symbol |-> Get(o, "underlying_symbol"),
             underlying_type   |-> Get(o, "underlying_instrument_type"),
             price             |-> IF Truthy(Get(o, "price")) THEN Decimal(Get(o, "price")) ELSE None,
             price_effect      |-> IF Truthy(Get(o, "price_effect")) THEN Get(o, "price_effect") ELSE None,
             status            |-> Get(o, "status"),
             contingent_status |-> IF Truthy(Get(o, "contingent_status"))
                                   THEN Get(o, "contingent_status") ELSE None,
             cancellable       |-> Get(o, "cancellable"),
             cancelled_at      |-> OptDateTime(Get(o, "cancelled_at")),
             editable          |-> Get(o, "editable"),
             edited            |-> Get(o, "edited"),
             received_at       |-> OptDateTime(Get(o, "received_at")),
             updated_at        |-> OptDateTime(Get(o, "updated_at")),
             terminal_at       |-> OptDateTime(Get(o, "terminal_at")),
             legs              |-> [i \in 1..Len(o.legs) |-> LegParseFromOrder(o.legs[i])]]
    IN  Order(IF IsRouted(data) THEN new_data @@ RoutedFields(data) ELSE new_data)

\* to_order_json raises AttributeError on a None type, time in force, price effect,
\* leg action or leg instrument type, or on a None gtc_date of a GTD order
ToJsonOk(o) ==
    /\ o.type # None
    /\ o.time_in_force # None
    /\ \A i \in 1..Len(o.legs) : LegToJsonOk(o.legs[i])
    /\ o.price_effect # None
    /\ o.time_in_force = "GTD" => o.gtc_date # None

\* to_order_json writing the stop trigger whatever the order type
ToOrderJsonAlwaysStop(o) ==
    [order_type    |-> o.type,
     source        |-> o.source,
     time_in_force |-> o.time_in_force,
     legs          |-> [i \in 1..Len(o.legs) |-> LegToOrderJson(o.legs[i])],
     price         |-> IF Truthy(o.price) THEN Format2f(o.price) ELSE "0",
     price_effect  |-> o.price_effect,
     stop_trigger  |-> o.stop_trigger]
    @@ (IF o.time_in_force = "GTD" THEN [gtc_date |-> o.gtc_date] ELSE <<>>)

ToOrderJson(o) ==
    [order_type    |-> o.type,
     source        |-> o.source,
     time_in_force |-> o.time_in_force,
     legs          |-> [i \in 1..Len(o.legs) |-> LegToOrderJson(o.legs[i])],
     price         |-> IF Truthy(o.price) THEN Format2f(o.price) ELSE "0",
     price_effect  |-> o.price_effect]
    @@ (IF o.time_in_force = "GTD" THEN [gtc_date |-> o.gtc_date] ELSE <<>>)
    @@ (IF o.type \in {"Stop Limit", "Stop"} THEN [stop_trigger |-> o.stop_trigger] ELSE <<>>)

\* is_executable without its test that the order has legs
IsExecutableAnyLegs(o) ==
    LET required_data ==
            <<Truthy(o.type), Truthy(o.source), Truthy(o.time_in_force)>>
            \o (IF o.type # "Market" THEN <<Len(<<o.price, o.price_effect>>) # 0>> ELSE <<>>)
            \o (IF o.type \in {"Stop Limit", "Stop"} THEN <<Truthy(o.stop_trigger)>> ELSE <<>>)
            \o (IF o.time_in_force = "GTD" THEN <<Truthy(o.gtc_date)>> ELSE <<>>)
    IN  \A i \in 1..Len(required_data) : required_data[i]

\* is_executable asking for the stop trigger of a Stop Limit order only
IsExecutableStopLimitOnly(o) ==
    LET required_data ==
            <<Truthy(o.type), Truthy(o.source), Truthy(o.time_in_force), Len(o.legs) # 0>>
            \o (IF o.type # "Market" THEN <<Len(<<o.price, o.price_effect>>) # 0>> ELSE <<>>)
            \o (IF o.type \in {"Stop Limit"} THEN <<Truthy(o.stop_trigger)>> ELSE <<>>)
            \o (IF o.time_in_force = "GTD" THEN <<Truthy(o.gtc_date)>> ELSE <<>>)
    IN  \A i \in 1..Len(required_data) : required_data[i]

\* all(required_data): [self.price, self.price_effect] is appended as ONE element,
\* a two-element list, whose truth value is that of a non-empty list
IsExecutable(o) ==
    LET required_data ==
            <<Truthy(o.type), Truthy(o.source), Truthy(o.time_in_force), Len(o.legs) # 0>>
            \o (IF o.type # "Market" THEN <<Len(<<o.price, o.price_effect>>) # 0>> ELSE <<>>)
            \o (IF o.type \in {"Stop Limit", "Stop"} THEN <<Truthy(o.stop_trigger)>> ELSE <<>>)
            \o (IF o.time_in_force = "GTD" THEN <<Truthy(o.gtc_date)>> ELSE <<>>)
    IN  \A i \in 1..Len(required_data) : required_data[i]

\* update_fields, with the field-merge guard inverted on None (a plausible slip)
UpdateFieldsBlanking(self, newer_order) ==
    [k \in OrderFields |->
        IF newer_order[k] # self[k] THEN newer_order[k] ELSE self[k]]

\* update_fields, were it left where it has assigned the fields up to the legs and
\* none of the fields that follow them in the dataclass
UpdateFieldsUpToLegs(self, newer_order) ==
    [k \in OrderFields |->
        IF k \in {"account_number", "type", "time_in_force", "legs"}
           /\ newer_order[k] # self[k] /\ ~IsNone(k, newer_order[k])
        THEN newer_order[k] ELSE self[k]]

\* update_fields, were it never to replace the legs
UpdateFieldsKeepsLegs(self, newer_order) ==
    [k \in OrderFields |->
        IF k # "legs" /\ newer_order[k] # self[k] /\ ~IsNone(k, newer_order[k])
        THEN newer_order[k] ELSE self[k]]

UpdateFields(self, newer_order) ==
    [k \in OrderFields |->
        IF newer_order[k] # self[k] /\ ~IsNone(k, newer_order[k])
        THEN newer_order[k] ELSE self[k]]

-----------------------------------------------------------------------------
(* TastyAPISession *)

\* start: max_retries = 3
max_retries == 3

\* the status code start and _validate_session compare the answer's status.code with
Created == 201

\* the dataclass defaults, as cls() builds the instance
TastyAPISession ==
    [session_token |-> None, logged_in |-> "False", logged_in_at |-> None,
     validated |-> None, validated_at |-> None]

\* start: "while not session.validated or tries == max_retries"
StartContinues(s, t) == ~Truthy(s.validated) \/ t = max_retries

\* start, were a refused login to log the session out
LoginRefusedLogsOut(s) == [s EXCEPT !.logged_in = "False", !.logged_in_at = None]

\* start: a refused login logs the failure and continues; the session is not touched
LoginRefused(s) == s

\* start: the three assignments after an accepted login
LoginAccepted(s, session_token) ==
    [s EXCEPT !.logged_in = "True", !.logged_in_at = "dt(now)",
              !.session_token = session_token]

\* _validate_session: the status code is 201
Validated(s) == [s EXCEPT !.validated = "True", !.validated_at = "dt(now)"]

\* _validate_session clearing the flags but keeping the token
InvalidatedKeepsToken(s) ==
    [s EXCEPT !.logged_in = "False", !.logged_in_at = None,
              !.validated = "False", !.validated_at = None]

\* _validate_session: any other status code clears the session
Invalidated(s) ==
    [session_token |-> None, logged_in |-> "False", logged_in_at |-> None,
     validated |-> "False", validated_at |-> None]

-----------------------------------------------------------------------------
(* The remote system of record, as seen through tw_api: what it may answer *)

AccountNumber == "5WT0001"

RawLeg(fills, remaining_quantity) ==
    [instrument_type |-> "Equity", symbol |-> "SPY", action |-> "Buy to Open",
     quantity |-> "1", fills |-> fills, remaining_quantity |-> remaining_quantity]

\* Server-side versions of the same order: "A" is working and untouched, "B" is
\* repriced, filled and locked, "C" is A in a partial record that carries no price.
RawOrder(id, status, v) ==
    [id |-> id, account_number |-> AccountNumber,
     time_in_force |-> "Day", order_type |-> "Limit", size |-> "1",
     underlying_symbol |-> "SPY", underlying_instrument_type |-> "Equity",
     price |-> CASE v = "A" -> "100.00" [] v = "B" -> "101.50" [] OTHER -> None,
     price_effect |-> "Debit",
     status |-> status,
     contingent_status |-> IF v = "B" THEN "Pending Order" ELSE None,
     cancellable |-> IF v = "B" THEN "False" ELSE "True",
     editable |-> IF v = "B" THEN "False" ELSE "True",
     edited |-> "False",
     cancelled_at |-> IF status = "Cancelled" THEN "2020-01-02T11:00" ELSE None,
     received_at |-> "2020-01-02T10:00",
     updated_at |-> "1577959200000",
     terminal_at |-> IF status = "Cancelled" THEN "2020-01-02T11:00" ELSE None,
     legs |-> IF v = "B" THEN <<RawLeg("[f1]", "0")>> ELSE <<RawLeg("[]", "1")>>]

\* content.data of a route-order answer: the wrapped envelope
Envelope(raw, errors) ==
    [order |-> raw, buying_power_effect |-> "bp1",
     fee_calculation |-> IF errors = "[]" THEN "fees2" ELSE "fees1",
     warnings |-> IF errors = None THEN "[w1]" ELSE None, errors |-> errors]

\* the dict a fee-calculation token stands for, with the two keys total_fees reads
FeeCalculation(fees) ==
    CASE fees = "fees1" -> [total_fees |-> "1.25", total_fees_effect |-> "Debit"]
      [] fees = "fees2" -> [total_fees |-> "0.50", total_fees_effect |-> "Credit"]
      [] OTHER          -> [total_fees |-> "0.00", total_fees_effect |-> "None"]

\* what api.route_order may answer (content.data); "Bogus" is a status this client
\* does not know
RouteResponses ==
    { Envelope(RawOrder(None, "Received", "A"), e) : e \in {None, "[e1]"} }
    \cup { Envelope(RawOrder("1", "Routed", "A"), e) : e \in {None, "[]", "[e1]"} }
    \cup {Envelope(RawOrder("1", "Bogus", "A"), "[e1]"), RawOrder("1", "Routed", "A")}

\* what one entry of api.get_orders_live's items may be
LiveOrders ==
    {RawOrder("1", "Received", "C"), RawOrder("1", "Live", "A"), RawOrder("1", "Live", "B"),
     RawOrder("1", "Cancelled", "B"), RawOrder("1", "Bogus", "A"), RawOrder("2", "Live", "A")}

RECURSIVE SeqsUpTo(_, _)
SeqsUpTo(S, n) ==
    IF n = 0 THEN {<<>>}
    ELSE SeqsUpTo(S, n - 1) \cup
         { Append(q, x) : q \in { r \in SeqsUpTo(S, n - 1) : Len(r) = n - 1 }, x \in S }

\* what api.get_orders_live may answer (content.data.items)
Listings == SeqsUpTo(LiveOrders, MaxItems)

\* what api.cancel_order may answer (content.data): the order record
CancelResponses ==
    {RawOrder("1", "Cancel Requested", "B"), RawOrder("1", "Cancelled", "B"),
     RawOrder("1", "Bogus", "B"),
     [RawOrder("1", "Cancelled", "B") EXCEPT !.order_type = "Bogus"],
     [RawOrder("1", "Cancelled", "B") EXCEPT !.time_in_force = "Bogus"],
     [RawOrder("1", "Cancelled", "B") EXCEPT !.underlying_instrument_type = "Bogus"],
     [RawOrder("1", "Cancelled", "B") EXCEPT !.legs[1].instrument_type = "Bogus"],
     [RawOrder("1", "Cancelled", "B") EXCEPT !.legs[1].action = "Bogus"]}

\* session tokens the remote may issue
Tokens == {"t1", "t2"}

\* what api.session_start may answer: refused, or created with a session token
SessionStartResponses ==
    {[code |-> 401]} \cup { [code |-> Created, session_token |-> t] : t \in Tokens }

\* what api.session_validate may answer
SessionValidateResponses == {[code |-> Created], [code |-> 401]}

-----------------------------------------------------------------------------
(* Orders the caller may hold before calling into the lifecycle engine *)

SpyLeg == Leg("Equity", "SPY", "Buy to Open", "1", None, None)

\* (type, price effect): a Stop order here lacks its stop trigger
Kinds == {<<"Limit", "Debit">>, <<"Limit", None>>, <<"Market", "Debit">>,
          <<"Market", None>>, <<"Stop", "Debit">>}

\* (id, editable): never routed, or taken from an earlier listing
Origins == {<<None, None>>, <<"0", "True">>, <<"1", None>>, <<"1", "True">>, <<"s1", "True">>}

FreshOrder(k, legs, g) ==
    Order([account_number |-> AccountNumber, type |-> k[1], time_in_force |-> "Day",
           legs |-> legs, price |-> "100", price_effect |-> k[2],
           id |-> g[1], editable |-> g[2]])

\* the last one is built with a source of the caller's own: Order(..., source='MYAPP')
FreshOrders ==
    { FreshOrder(k, <<SpyLeg>>, g) : k \in Kinds, g \in Origins }
    \cup { FreshOrder(<<"Limit", "Debit">>, <<>>, g) : g \in Origins }
    \cup { [FreshOrder(<<"Limit", "Debit">>, <<SpyLeg>>, <<"1", "True">>)
               EXCEPT !.source = "MYAPP"] }

-----------------------------------------------------------------------------
(* Remote calls, as recorded in calls *)

RouteOrderCall(o, is_dry_run) ==
    [name |-> "route_order", account_number |-> o.account_number,
     order_json |-> ToOrderJson(o), is_dry_run |-> is_dry_run, order_id |-> o.id]

GetOrdersLiveCall(o) ==
    [name |-> "get_orders_live", account_number |-> o.account_number]

CancelOrderCall(o) ==
    [name |-> "cancel_order", account_number |-> o.account_number, order_id |-> o.id]

SessionStartCall == [name |-> "session_start"]

SessionValidateCall(s) == [name |-> "session_validate", session_token |-> s.session_token]

\* asyncio.sleep(5) in start
SleepCall == [name |-> "sleep", delay |-> "5"]

-----------------------------------------------------------------------------
(* Guards and decisions of the lifecycle methods *)

\* route without its executability check
RouteRefusesNever(o) == FALSE

\* route: "if not await self.is_executable(): return False"
RouteRefuses(o) == ~IsExecutable(o)

\* update without its editable check
UpdateRefusesIdOnly(o) == ~IsInt(o.id)

\* update: the two early returns
UpdateRefuses(o) == ~IsInt(o.id) \/ ~Truthy(o.editable)

\* cancel: "if not self.id: return False"
CancelRefuses(o) == ~Truthy(o.id)

\* live_sync without its id check
LiveSyncRefusesNever(o) == FALSE

\* live_sync: "if not self.id: return False"
LiveSyncRefuses(o) == ~Truthy(o.id)

\* live_sync: match = [order for order in items if order.get('id') == self.id]
Match(items, id) == SelectSeq(items, LAMBDA entry : Get(entry, "id") = id)

\* live_sync: len(match) == 0 / len(match) > 1, both of which return False
NotFound(match) == Len(match) = 0

\* live_sync without its check for several matches
MultipleIgnored(match) == FALSE

Multiple(match) == Len(match) > 1

\* live_sync without the contingent-status hack
ClearContingentNever(o) == o

\* live_sync: the contingent-status hack once the order is live
ClearContingent(o) ==
    IF o.status = "Live" THEN [o EXCEPT !.contingent_status = ""] ELSE o

\* cancel without its cancellable check
CancelProceedsUnchecked(is_updated, o) == Truthy(is_updated)

\* cancel goes on to the remote cancel endpoint after its first live_sync
CancelProceeds(is_updated, o) == Truthy(is_updated) /\ Truthy(o.cancellable)

\* cancel reporting success whatever the status
CancelResultAlways(o) == "True"

\* cancel: "return self.status == OrderStatus.CANCELLED"
CancelResult(o) == IF o.status = "Cancelled" THEN "True" ELSE "False"

\* route without its assignment of is_dry_run and received_at
OrderReceivedUnflagged(data, is_dry_run) == ParseFromApi(data)

\* Decimal * int, for a Decimal that is not negative and the ints 1 and -1
Times(d, n) == IF n = 1 THEN d ELSE "-" \o d

\* total_fees: the value it returns, or "raise" (AttributeError on fees None, KeyError
\* on an effect that is not a member of OrderPriceEffectSign)
TotalFeesOf(o) ==
    IF o.fees = None THEN "raise"
    ELSE LET fees == FeeCalculation(o.fees) IN
         IF fees.total_fees_effect \notin DOMAIN OrderPriceEffectSign THEN "raise"
         ELSE Times(Decimal(fees.total_fees), OrderPriceEffectSign[fees.total_fees_effect])

\* route: the order parsed from the answer, as handed to update_fields
OrderReceived(data, is_dry_run) ==
    LET parsed == [ParseFromApi(data) EXCEPT !.is_dry_run = is_dry_run]
    IN  IF Truthy(is_dry_run) THEN [parsed EXCEPT !.received_at = "dt(now)"] ELSE parsed

-----------------------------------------------------------------------------
(* Control flow shared by the methods.  Each operator fixes pc, ctx, ret and calls. *)

\* the snapshots before the method has merged, synchronised or parsed anything
NoResponse == [none |-> TRUE]

NoSnapshot == [self |-> Order(<<>>), newer |-> Order(<<>>), out |-> Order(<<>>)]

NoSync == [self |-> Order(<<>>), found |-> 0, entry |-> NoResponse, ret |-> "None", asked |-> FALSE]

\* no live_sync coroutine has been created
NoTasks == <<>>

\* DataStreamer.__init__: the attributes it sets; logged_in is not among them, and
\* reading it before _setup_connection has set it raises AttributeError ("unset")
DataStreamer ==
    [data |-> None, token |-> None, websocket_url |-> None, tasty_session |-> None,
     cometd_client |-> None, data_created |-> None, subs |-> "{}", logged_in |-> "unset"]

\* no aiocometd client has been created
NoTransport == [state |-> "none", log |-> <<>>, arrived |-> <<>>, taken |-> 0]

\* listen() has not been called
NoListener == [pc |-> "none", yielded |-> <<>>]

\* the parts of the state that belong to other specifications, as constructed
ConcIdle == tasks = NoTasks /\ remote = 0

StreamIdle == streamer = DataStreamer /\ transport = NoTransport /\ listener = NoListener


Return(r, cs) ==
    /\ pc' = "idle"
    /\ ctx' = "none"
    /\ ret' = r
    /\ calls' = cs

Await(call, caller, cs) ==
    /\ pc' = call.name
    /\ ctx' = caller
    /\ ret' = "None"
    /\ calls' = Append(cs, call)

\* is_received, is_live: "return self.status == OrderStatus.RECEIVED" (LIVE), whatever
\* the live_sync before it returned
StatusIs(o, name) ==
    IF o.status = (IF name = "is_live" THEN "Live" ELSE "Received") THEN "True" ELSE "False"

\* what the caller of live_sync does with its result, on the order o
AfterSync(caller, is_updated, o, cs) ==
    CASE caller = "route"     -> Return("True", cs)
      [] caller = "live_sync" -> Return(is_updated, cs)
      [] caller = "cancel"    ->
            IF CancelProceeds(is_updated, o)
            THEN Await(CancelOrderCall(o), "cancel", cs)
            ELSE Return("False", cs)
      [] caller = "cancel_tail" -> Return(CancelResult(o), cs)
      [] caller \in {"is_received", "is_live"} -> Return(StatusIs(o, caller), cs)

\* entering live_sync on the order o, from caller
EnterLiveSync(caller, o, cs) ==
    IF LiveSyncRefuses(o)
    THEN /\ sync' = [self |-> o, found |-> 0, entry |-> NoResponse, ret |-> "False", asked |-> FALSE]
         /\ AfterSync(caller, "False", o, cs)
    ELSE /\ sync' = NoSync
         /\ Await(GetOrdersLiveCall(o), caller, cs)

\* entering route (from the caller, or from update)
EnterRoute(is_dry_run) ==
    IF RouteRefuses(order) THEN Return("False", <<>>)
    ELSE IF ~ToJsonOk(order) THEN Return("raise", <<>>)
    ELSE Await(RouteOrderCall(order, is_dry_run), "route", <<>>)

\* the caller invokes a top-level method
Invoke(name, is_dry_run) ==
    /\ pc = "idle"
    /\ op' = name
    /\ dry' = is_dry_run
    /\ before' = order
    /\ step' = name
    /\ order' = order
    /\ merged' = NoSnapshot
    /\ resp' = NoResponse
    /\ UNCHANGED <<new_leg, returned, concvars, streamvars, session, tries>>

-----------------------------------------------------------------------------
(* The methods *)

Route(is_dry_run) ==
    /\ Invoke("route", is_dry_run)
    /\ EnterRoute(is_dry_run)
    /\ sync' = NoSync

Update ==
    /\ Invoke("update", "False")
    /\ IF UpdateRefuses(order) THEN Return("False", <<>>) ELSE EnterRoute("False")
    /\ sync' = NoSync

Cancel ==
    /\ Invoke("cancel", None)
    /\ IF CancelRefuses(order)
       THEN Return("False", <<>>) /\ sync' = NoSync
       ELSE EnterLiveSync("cancel", order, <<>>)

LiveSync ==
    /\ Invoke("live_sync", None)
    /\ EnterLiveSync("live_sync", order, <<>>)

IsReceived ==
    /\ Invoke("is_received", None)
    /\ EnterLiveSync("is_received", order, <<>>)

IsLive ==
    /\ Invoke("is_live", None)
    /\ EnterLiveSync("is_live", order, <<>>)

TotalFees ==
    /\ Invoke("total_fees", None)
    /\ Return(TotalFeesOf(order), <<>>)
    /\ sync' = NoSync

\* api.route_order answers: parse, merge, then the reconciliation pass
RouteOrderResponse ==
    /\ pc = "route_order"
    /\ \E data \in RouteResponses :
        /\ resp' = data
        /\ IF ~ParseOk(data)
           THEN /\ Return("raise", calls)
                /\ sync' = NoSync
                /\ UNCHANGED <<order, merged>>
           ELSE LET order_received == OrderReceived(data, dry)
                    out == UpdateFields(order, order_received)
                IN  /\ order' = out
                    /\ merged' = [self |-> order, newer |-> order_received, out |-> out]
                    /\ EnterLiveSync("route", out, calls)
    /\ step' = "route_order"
    /\ UNCHANGED <<op, dry, before, new_leg, returned, concvars, streamvars, session, tries>>

\* api.get_orders_live answers: the rest of live_sync, then back to its caller
GetOrdersLiveResponse ==
    /\ pc = "get_orders_live"
    /\ \E items \in Listings :
        LET match == Match(items, order.id) IN
        IF NotFound(match) \/ Multiple(match)
        THEN /\ sync' = [self |-> order, found |-> Len(match), entry |-> NoResponse,
                      ret |-> "False", asked |-> TRUE]
             /\ AfterSync(ctx, "False", order, calls)
             /\ UNCHANGED <<order, merged>>
        ELSE IF ~ParseOk(match[1])
        THEN /\ sync' = [self |-> order, found |-> Len(match), entry |-> match[1],
                           ret |-> "raise", asked |-> TRUE]
             /\ Return("raise", calls)
             /\ UNCHANGED <<order, merged>>
        ELSE LET newer == ParseFromApi(match[1])
                 out == UpdateFields(order, newer)
                 synced == ClearContingent(out)
             IN  /\ order' = synced
                 /\ merged' = [self |-> order, newer |-> newer, out |-> out]
                 /\ sync' = [self |-> order, found |-> Len(match), entry |-> match[1],
                           ret |-> "True", asked |-> TRUE]
                 /\ AfterSync(ctx, "True", synced, calls)
    /\ step' = "get_orders_live"
    /\ UNCHANGED <<op, dry, before, resp, new_leg, returned, concvars, streamvars, session, tries>>

\* api.cancel_order answers: parse, merge, then the reconciliation pass
CancelOrderResponse ==
    /\ pc = "cancel_order"
    /\ \E data \in CancelResponses :
        /\ resp' = data
        /\ IF ~ParseOk(data)
           THEN /\ Return("raise", calls)
                /\ sync' = NoSync
                /\ UNCHANGED <<order, merged>>
           ELSE LET order_received == ParseFromApi(data)
                    out == UpdateFields(order, order_received)
                IN  /\ order' = out
                    /\ merged' = [self |-> order, newer |-> order_received, out |-> out]
                    /\ EnterLiveSync("cancel_tail", out, calls)
    /\ step' = "cancel_order"
    /\ UNCHANGED <<op, dry, before, new_leg, returned, concvars, streamvars, session, tries>>

-----------------------------------------------------------------------------
(* The specification *)

Init ==
    /\ order \in FreshOrders
    /\ returned = NoResponse
    /\ ConcIdle
    /\ StreamIdle
    /\ new_leg = SpyLeg
    /\ session = TastyAPISession
    /\ tries = 0
    /\ pc = "idle"
    /\ ctx = "none"
    /\ op = "none"
    /\ dry = None
    /\ before = order
    /\ calls = <<>>
    /\ ret = "None"
    /\ step = "init"
    /\ sync = NoSync
    /\ merged = NoSnapshot
    /\ resp = NoResponse

Next ==
    \/ \E is_dry_run \in {"True", "False"} : Route(is_dry_run)
    \/ Update
    \/ Cancel
    \/ LiveSync
    \/ IsReceived
    \/ IsLive
    \/ TotalFees
    \/ RouteOrderResponse
    \/ GetOrdersLiveResponse
    \/ CancelOrderResponse

Spec == Init /\ [][Next]_vars

-----------------------------------------------------------------------------
(* TastyAPISession.start and is_active *)

\* start: the while test on the session s with tries = t, then either the head of the
\* next iteration up to its await of api.session_start, or the statements after the
\* loop (a bare raise outside an except clause raises RuntimeError)
StartLoop(s, t, cs) ==
    IF StartContinues(s, t)
    THEN /\ t < MaxTries
         /\ tries' = t + 1
         /\ Await(SessionStartCall, "start", cs)
    ELSE /\ tries' = t
         /\ IF ~Truthy(s.validated) THEN Return("raise", cs) ELSE Return("session", cs)

Start ==
    /\ pc = "idle"
    /\ op' = "start"
    /\ before' = TastyAPISession
    /\ session' = TastyAPISession
    /\ resp' = NoResponse
    /\ StartLoop(TastyAPISession, 1, <<>>)
    /\ UNCHANGED <<order, new_leg, returned, concvars, streamvars, dry, step, sync, merged>>

IsActive ==
    /\ pc = "idle"
    /\ op' = "is_active"
    /\ before' = session
    /\ resp' = NoResponse
    /\ Await(SessionValidateCall(session), "is_active", <<>>)
    /\ UNCHANGED <<order, new_leg, returned, concvars, streamvars, session, tries, dry, step, sync, merged>>

\* api.session_start answers: the rest of the iteration up to the next await
SessionStartResponse ==
    /\ pc = "session_start"
    /\ \E r \in SessionStartResponses :
        /\ resp' = r
        /\ IF r.code # Created
           THEN LET s == LoginRefused(session)
                IN  /\ session' = s
                    /\ StartLoop(s, tries, calls)
           ELSE LET s == LoginAccepted(session, r.session_token)
                IN  /\ session' = s
                    /\ tries' = tries
                    /\ Await(SessionValidateCall(s), "start", calls)
    /\ UNCHANGED <<order, new_leg, returned, concvars, streamvars, op, before, dry, step, sync, merged>>

\* api.session_validate answers: the rest of _validate_session, then back to its caller
SessionValidateResponse ==
    /\ pc = "session_validate"
    /\ \E r \in SessionValidateResponses :
        LET s == IF r.code = Created THEN Validated(session) ELSE Invalidated(session)
            is_valid == IF r.code = Created THEN "True" ELSE "False"
        IN  /\ resp' = r
            /\ session' = s
            /\ IF ctx = "is_active"
               THEN /\ tries' = tries
                    /\ Return(is_valid, calls)
               ELSE IF ~Truthy(s.validated)
               THEN /\ tries' = tries
                    /\ Await(SleepCall, "start", calls)
               ELSE StartLoop(s, tries, calls)
    /\ UNCHANGED <<order, new_leg, returned, concvars, streamvars, op, before, dry, step, sync, merged>>

\* asyncio.sleep(5) is over: back to the while test
SleepReturns ==
    /\ pc = "sleep"
    /\ StartLoop(session, tries, calls)
    /\ UNCHANGED <<order, new_leg, returned, concvars, streamvars, session, op, before, dry, step, sync, merged, resp>>

\* the order of example.py, before it is routed
ExampleOrder == FreshOrder(<<"Limit", "Debit">>, <<SpyLeg>>, <<None, None>>)

SessionInit ==
    /\ session = TastyAPISession
    /\ tries = 0
    /\ order = ExampleOrder
    /\ returned = NoResponse
    /\ ConcIdle
    /\ StreamIdle
    /\ new_leg = SpyLeg
    /\ pc = "idle"
    /\ ctx = "none"
    /\ op = "none"
    /\ dry = None
    /\ before = TastyAPISession
    /\ calls = <<>>
    /\ ret = "None"
    /\ step = "init"
    /\ sync = NoSync
    /\ merged = NoSnapshot
    /\ resp = NoResponse

SessionNext ==
    \/ Start
    \/ IsActive
    \/ SessionStartResponse
    \/ SessionValidateResponse
    \/ SleepReturns

SessionSpec == SessionInit /\ [][SessionNext]_vars

-----------------------------------------------------------------------------
(* Validation: Leg.is_executable, Order.add_leg, Order.is_executable, on the legs and
   orders a caller may build with the two dataclass constructors *)

\* Leg(instrument_type, symbol, action, quantity): fields set, left None, or blank
SomeLegs ==
    { Leg(t, s, a, q, None, None) :
        t \in {None, "Equity"}, s \in {None, "", "SPY"},
        a \in {None, "Buy to Open"}, q \in {None, "1", "-1"} }

\* a leg with nothing filled in
BlankLeg == Leg(None, "", None, None, None, None)

\* Order(...): the legs list may be passed to the constructor, bypassing add_leg
SomeOrders ==
    { Order([account_number |-> AccountNumber, type |-> t, time_in_force |-> f,
             price |-> p, price_effect |-> e, stop_trigger |-> g, gtc_date |-> d,
             legs |-> l]) :
        t \in {None, "Market", "Limit", "Stop", "Stop Limit"},
        f \in {None, "Day", "GTD"},
        p \in {None, "100"}, e \in {None, "Debit"},
        g \in {None, "95"}, d \in {None, "2020-01-31"},
        l \in {<<>>, <<SpyLeg>>, <<BlankLeg>>} }

\* add_leg, were it to put the leg in front
LegPrepended(o, leg) == [o EXCEPT !.legs = <<leg>> \o @]

\* add_leg: self.legs.append(leg)
LegAppended(o, leg) == [o EXCEPT !.legs = Append(@, leg)]

\* a Python bool, as its token
Bool(b) == IF b THEN "True" ELSE "False"

\* the caller invokes one of the validation methods, which do not await anything
Validate(name, result) ==
    /\ pc = "idle"
    /\ op' = name
    /\ before' = order
    /\ ret' = result
    /\ UNCHANGED <<new_leg, returned, concvars, streamvars, session, tries, pc, ctx, dry, calls, step, sync, merged, resp>>

\* await new_leg.is_executable()
CheckLeg ==
    /\ Validate("Leg.is_executable", Bool(LegIsExecutable(new_leg)))
    /\ order' = order

\* await order.add_leg(new_leg)
AddLeg ==
    /\ Len(order.legs) < MaxLegs
    /\ Validate("add_leg", Bool(LegIsExecutable(new_leg)))
    /\ order' = IF LegIsExecutable(new_leg)
                THEN LegAppended(order, new_leg)
                ELSE order

\* await order.is_executable()
CheckOrder ==
    /\ Validate("is_executable", Bool(IsExecutable(order)))
    /\ order' = order

\* await order.to_order_json()
Serialize ==
    /\ pc = "idle"
    /\ op' = "to_order_json"
    /\ before' = order
    /\ IF ToJsonOk(order)
       THEN ret' = "None" /\ returned' = ToOrderJson(order)
       ELSE ret' = "raise" /\ returned' = NoResponse
    /\ UNCHANGED <<order, new_leg, concvars, streamvars, session, tries, pc, ctx, dry, calls,
                   step, sync, merged, resp>>

ExecInit ==
    /\ order \in SomeOrders
    /\ returned = NoResponse
    /\ ConcIdle
    /\ StreamIdle
    /\ new_leg \in SomeLegs
    /\ session = TastyAPISession
    /\ tries = 0
    /\ pc = "idle"
    /\ ctx = "none"
    /\ op = "none"
    /\ dry = None
    /\ before = order
    /\ calls = <<>>
    /\ ret = "None"
    /\ step = "init"
    /\ sync = NoSync
    /\ merged = NoSnapshot
    /\ resp = NoResponse

ExecNext ==
    \/ CheckLeg
    \/ AddLeg
    \/ CheckOrder
    \/ Serialize

ExecSpec == ExecInit /\ [][ExecNext]_vars

-----------------------------------------------------------------------------
(* Order.parse_from_api on the two shapes of one remote record: the bare record, as
   the listings carry it, and the envelope a route-order answer wraps it in *)

\* order records the remote may send
SomeRecords ==
    { RawOrder(id, status, v) :
        id \in {None, "1"}, status \in {"Received", "Live", "Bogus"}, v \in {"A", "B", "C"} }

\* content.data of a route-order answer around the record raw
EnvelopeOf(raw, bp, fees, warnings, errors) ==
    [order |-> raw, buying_power_effect |-> bp, fee_calculation |-> fees,
     warnings |-> warnings, errors |-> errors]

SomeEnvelopes(raw) ==
    { EnvelopeOf(raw, bp, fees, warnings, errors) :
        bp \in {None, "bp1"}, fees \in {None, "fees1"},
        warnings \in {None, "[]", "[w1]"}, errors \in {None, "[]", "[e1]"} }

\* the answers the caller may hold
SomeAnswers == UNION { SomeEnvelopes(raw) : raw \in SomeRecords }

\* await Order.parse_from_api(data['order']), then await Order.parse_from_api(data),
\* for the envelope data the caller holds (resp)
ParseShapes ==
    /\ pc = "idle"
    /\ LET data == resp
           raw == data.order
       IN  IF ParseOk(raw) /\ ParseOk(data)
           THEN /\ ret' = "None"
                /\ returned' = [bare |-> ParseFromApi(raw), wrapped |-> ParseFromApi(data)]
           ELSE /\ ret' = "raise"
                /\ returned' = NoResponse
    /\ op' = "parse_from_api"
    /\ UNCHANGED <<order, new_leg, concvars, streamvars, session, tries, pc, ctx, dry,
                   before, calls, step, sync, merged, resp>>

ParseInit ==
    /\ order = ExampleOrder
    /\ returned = NoResponse
    /\ ConcIdle
    /\ StreamIdle
    /\ new_leg = SpyLeg
    /\ session = TastyAPISession
    /\ tries = 0
    /\ pc = "idle"
    /\ ctx = "none"
    /\ op = "none"
    /\ dry = None
    /\ before = order
    /\ calls = <<>>
    /\ ret = "None"
    /\ step = "init"
    /\ sync = NoSync
    /\ merged = NoSnapshot
    /\ resp \in SomeAnswers

ParseNext == ParseShapes

ParseSpec == ParseInit /\ [][ParseNext]_vars

-----------------------------------------------------------------------------
(* live_sync calls on one Order that overlap: each coroutine is suspended at its await
   of api.get_orders_live, and resumes with the listing the remote answered it with *)

\* the coroutines: two live_sync calls on the same Order
Tasks == {"first", "second"}

\* the fills and the remaining quantity of the order's leg after n fills, on the wire
FillTokens == <<"[]", "[f1]", "[f1, f2]", "[f1, f2, f3]">>

RemainingTokens == <<"3", "2", "1", "0">>

\* the record of the order the remote system holds after n fills: each fill changes
\* the leg and the time of the last update
RemoteOrderAt(n) ==
    [RawOrder("1", "Live", "A") EXCEPT
        !.size = "3",
        !.updated_at = "157795920000" \o RemainingTokens[n + 1],
        !.legs = <<[RawLeg(FillTokens[n + 1], RemainingTokens[n + 1]) EXCEPT !.quantity = "3"]>>]

\* the example order, routed for 3 shares and synchronised before any fill
RoutedOrder ==
    UpdateFields([ExampleOrder EXCEPT !.legs = <<[SpyLeg EXCEPT !.quantity = "3"]>>],
                 ParseFromApi(RemoteOrderAt(0)))

IdleTask == [pc |-> "idle", items |-> <<>>, version |-> 0, ret |-> "None"]

\* a caller starts live_sync on the order, up to its await
ConcLiveSync(t) ==
    /\ tasks[t].pc = "idle"
    /\ tasks' = [tasks EXCEPT ![t] =
                    IF LiveSyncRefuses(order)
                    THEN [IdleTask EXCEPT !.ret = "False"]
                    ELSE [IdleTask EXCEPT !.pc = "get_orders_live"]]
    /\ UNCHANGED <<order, new_leg, session, tries, pc, ctx, op, dry, before, calls, ret,
                   step, sync, merged, resp, returned, remote, streamvars>>

\* the remote system fills part of the order
RemoteFills ==
    /\ remote < MaxVersions
    /\ remote' = remote + 1
    /\ UNCHANGED <<order, new_leg, session, tries, pc, ctx, op, dry, before, calls, ret,
                   step, sync, merged, resp, returned, tasks, streamvars>>

\* the remote system produces the listing for the request of t, from what it holds
RemoteAnswers(t) ==
    /\ tasks[t].pc = "get_orders_live"
    /\ tasks' = [tasks EXCEPT ![t] = [pc |-> "answered", items |-> <<RemoteOrderAt(remote)>>,
                                       version |-> remote, ret |-> "None"]]
    /\ UNCHANGED <<order, new_leg, session, tries, pc, ctx, op, dry, before, calls, ret,
                   step, sync, merged, resp, returned, remote, streamvars>>

\* t resumes with its listing: the rest of live_sync, which has no other await
ConcGetOrdersLiveResponse(t) ==
    /\ tasks[t].pc = "answered"
    /\ LET items == tasks[t].items
           match == Match(items, order.id)
       IN  IF NotFound(match) \/ Multiple(match)
           THEN /\ sync' = [self |-> order, found |-> Len(match), entry |-> NoResponse,
                            ret |-> "False", asked |-> TRUE]
                /\ tasks' = [tasks EXCEPT ![t] = [IdleTask EXCEPT !.ret = "False"]]
                /\ UNCHANGED <<order, merged>>
           ELSE IF ~ParseOk(match[1])
           THEN /\ sync' = [self |-> order, found |-> Len(match), entry |-> match[1],
                            ret |-> "raise", asked |-> TRUE]
                /\ tasks' = [tasks EXCEPT ![t] = [IdleTask EXCEPT !.ret = "raise"]]
                /\ UNCHANGED <<order, merged>>
           ELSE LET newer == ParseFromApi(match[1])
                    merged_order == UpdateFields(order, newer)
                    synced == ClearContingent(merged_order)
                IN  /\ order' = synced
                    /\ merged' = [self |-> order, newer |-> newer, out |-> merged_order]
                    /\ sync' = [self |-> order, found |-> Len(match), entry |-> match[1],
                                ret |-> "True", asked |-> TRUE]
                    /\ tasks' = [tasks EXCEPT ![t] = [IdleTask EXCEPT !.ret = "True"]]
    /\ resp' = [task |-> t, version |-> tasks[t].version]
    /\ step' = "get_orders_live"
    /\ op' = "live_sync"
    /\ UNCHANGED <<new_leg, session, tries, pc, ctx, dry, before, calls, ret, returned,
                   remote, streamvars>>

ConcInit ==
    /\ order = RoutedOrder
    /\ tasks = [t \in Tasks |-> IdleTask]
    /\ remote = 0
    /\ returned = NoResponse
    /\ StreamIdle
    /\ new_leg = SpyLeg
    /\ session = TastyAPISession
    /\ tries = 0
    /\ pc = "idle"
    /\ ctx = "none"
    /\ op = "none"
    /\ dry = None
    /\ before = order
    /\ calls = <<>>
    /\ ret = "None"
    /\ step = "init"
    /\ sync = NoSync
    /\ merged = NoSnapshot
    /\ resp = NoResponse

ConcNext ==
    \/ \E t \in Tasks : ConcLiveSync(t)
    \/ RemoteFills
    \/ \E t \in Tasks : RemoteAnswers(t)
    \/ \E t \in Tasks : ConcGetOrdersLiveResponse(t)

ConcSpec == ConcInit /\ [][ConcNext]_vars

-----------------------------------------------------------------------------
(* DataStreamer (streamer.py).  The streamer holds a session of the class
   models/session.py defines; the aiocometd client is the transport: it is opened,
   subscribed, published on and closed, and it hands over the messages that arrived
   on it, in their arrival order, to whoever iterates it *)

\* dxfeed.DATA_CHANNEL and dxfeed.SUBSCRIPTION_CHANNEL: the designated data channel and
\* the subscription-control channel
DATA_CHANNEL == "dxfeed.DATA_CHANNEL"

SUBSCRIPTION_CHANNEL == "dxfeed.SUBSCRIPTION_CHANNEL"

\* the subscription dictionaries a caller may pass
SomeValues == {"{Quote: [SPY]}", "{Quote: [AAPL]}"}

\* the messages that may arrive on the transport: on the data channel, or on a channel
\* of the connection's own traffic
SomeMessages ==
    {[channel |-> DATA_CHANNEL, data |-> d] : d \in {"{Quote: q1}", "{Quote: q2}"}}
        \cup {[channel |-> "/meta/connect", data |-> "{}"]}

\* models/session.py: a session its start returned, logged in with the token t
LoggedInSession(t) ==
    [api_url |-> "url", logged_in |-> "True", logged_in_at |-> "dt(now)", session_token |-> t]

\* models/session.py _validate_session: any status but 201 clears the session
SessionCleared(s) ==
    [s EXCEPT !.logged_in = "False", !.logged_in_at = None, !.session_token = None]

\* what api.get_streamer_info may answer
StreamerInfoResponses ==
    {[code |-> 200, token |-> "dx1", websocket_url |-> "wss://dx"], [code |-> 401]}

\* the events of the transport: open, subscribe (with its channel), close, and
\* publish (with its channel and message)
Published(channel, message) ==
    [event |-> "publish", channel |-> channel, message |-> message]

\* add_data_sub, were it to send its values under another key
AddMessageAsReset(values) == [key |-> "reset", value |-> values]

\* the dictionaries add_data_sub, remove_data_sub and reset_data_subs send
AddMessage(values) == [key |-> "add", value |-> values]

RemoveMessage(values) == [key |-> "remove", value |-> values]

ResetMessage == [key |-> "reset", value |-> "True"]

\* _send_msg: reading self.logged_in raises while the attribute is not set, and the
\* method raises when it is false
SendMsgRefuses(s) == s.logged_in = "unset" \/ ~Truthy(s.logged_in)

\* _send_msg: cometd_client.publish needs a client, and the client an open connection
PublishFails(s, t) == s.cometd_client = None \/ t.state # "open"

\* _consumer: the message data, decoded by dxfeed_mapper.map_message
Consumer(message) == <<"map_message", message>>

\* listen, were it to skip no message
ListenSkipsNothing(msg) == FALSE

\* listen: "if msg['channel'] != dxfeed.DATA_CHANNEL: continue"
ListenSkips(msg) == msg.channel # DATA_CHANNEL

\* what a method of the streamer found when it was entered
Entered(values) ==
    [log |-> transport.log, state |-> transport.state, logged_in |-> streamer.logged_in,
     values |-> values]

\* DataStreamer.start, up to its await of session.is_active
StreamerStart ==
    /\ pc = "idle"
    /\ transport.state = "none"
    /\ op' = "start"
    /\ before' = Entered(None)
    /\ streamer' = [DataStreamer EXCEPT !.tasty_session = "session"]
    /\ pc' = "is_active"
    /\ ret' = "None"
    /\ calls' = <<SessionValidateCall(session)>>
    /\ UNCHANGED <<order, new_leg, session, tries, ctx, dry, step, sync, merged, resp,
                   returned, concvars, transport, listener>>

\* is_active returns: when false, start awaits session.start()
StreamerIsActiveResponse ==
    /\ op = "start" /\ pc = "is_active"
    /\ \E r \in SessionValidateResponses :
          IF r.code = Created
          THEN /\ session' = session
               /\ pc' = "get_streamer_info"
               /\ calls' = Append(calls, [name |-> "get_streamer_info",
                                       session_token |-> session.session_token])
          ELSE /\ session' = SessionCleared(session)
               /\ pc' = "session_start"
               /\ calls' = Append(calls, SessionStartCall)
    /\ UNCHANGED <<order, new_leg, tries, ctx, op, dry, before, ret, step, sync, merged,
                   resp, returned, concvars, streamvars>>

\* session.start() returns: it is a classmethod that builds another session, which
\* start drops; _setup_connection begins, up to its await of api.get_streamer_info
StreamerSessionStartResponse ==
    /\ op = "start" /\ pc = "session_start"
    /\ pc' = "get_streamer_info"
    /\ calls' = Append(calls, [name |-> "get_streamer_info",
                                       session_token |-> session.session_token])
    /\ UNCHANGED <<order, new_leg, session, tries, ctx, op, dry, before, ret, step, sync,
                   merged, resp, returned, concvars, streamvars>>

\* _get_streamer_data resumes: another code than 200 leaves self.data None, and
\* self.data.get raises; otherwise the client is built and open() awaited
GetStreamerInfoResponse ==
    /\ op = "start" /\ pc = "get_streamer_info"
    /\ \E r \in StreamerInfoResponses :
          IF r.code # 200
          THEN /\ streamer' = DataStreamer
               /\ pc' = "idle"
               /\ ret' = "raise"
          ELSE /\ streamer' = [streamer EXCEPT !.data = "data",
                                               !.websocket_url = r.websocket_url,
                                               !.token = r.token,
                                               !.data_created = "dt(now)"]
               /\ pc' = "cometd_open"
               /\ ret' = "None"
    /\ UNCHANGED <<order, new_leg, session, tries, ctx, op, dry, before, calls, step, sync,
                   merged, resp, returned, concvars, transport, listener>>

\* open() returns and subscribe(DATA_CHANNEL) is awaited, or open() raises
CometdOpenReturns ==
    /\ op = "start" /\ pc = "cometd_open"
    /\ \/ /\ transport' = [transport EXCEPT !.state = "open", !.log = Append(@, [event |-> "open"])]
          /\ pc' = "cometd_subscribe"
          /\ UNCHANGED <<streamer, ret>>
       \/ /\ streamer' = DataStreamer
          /\ pc' = "idle"
          /\ ret' = "raise"
          /\ UNCHANGED transport
    /\ UNCHANGED <<order, new_leg, session, tries, ctx, op, dry, before, calls, step, sync,
                   merged, resp, returned, concvars, listener>>

\* _setup_connection, were it to return once subscribed, without the reset
CometdSubscribeReturnsNoReset ==
    /\ op = "start" /\ pc = "cometd_subscribe"
    /\ transport' = [transport EXCEPT !.log = Append(@, [event |-> "subscribe",
                                                         channel |-> DATA_CHANNEL])]
    /\ streamer' = [streamer EXCEPT !.cometd_client = "client", !.logged_in = "True"]
    /\ pc' = "idle"
    /\ ret' = "streamer"
    /\ UNCHANGED <<order, new_leg, session, tries, ctx, op, dry, before, calls, step,
                   sync, merged, resp, returned, concvars, listener>>

\* subscribe returns: the client is kept, logged_in is set, and reset_data_subs
\* awaits its publish
CometdSubscribeReturns ==
    /\ op = "start" /\ pc = "cometd_subscribe"
    /\ transport' = [transport EXCEPT !.log = Append(@, [event |-> "subscribe",
                                                         channel |-> DATA_CHANNEL])]
    /\ streamer' = [streamer EXCEPT !.cometd_client = "client", !.logged_in = "True"]
    /\ pc' = "cometd_publish"
    /\ UNCHANGED <<order, new_leg, session, tries, ctx, op, dry, before, calls, ret, step,
                   sync, merged, resp, returned, concvars, listener>>

\* the publish of the reset returns: _setup_connection returns True, start returns self
CometdPublishReturns ==
    /\ op = "start" /\ pc = "cometd_publish"
    /\ transport' = [transport EXCEPT
                        !.log = Append(@, Published(SUBSCRIPTION_CHANNEL, ResetMessage))]
    /\ pc' = "idle"
    /\ ret' = "streamer"
    /\ UNCHANGED <<order, new_leg, session, tries, ctx, op, dry, before, calls, step, sync,
                   merged, resp, returned, concvars, streamer, listener>>

\* _send_msg(channel, message), reached from a method called with the argument values
SendMsg(values, channel, message) ==
    /\ pc = "idle"
    /\ Len(SelectSeq(transport.log, LAMBDA e : e.event = "publish")) < MaxPublished
    /\ before' = Entered(values)
    /\ IF SendMsgRefuses(streamer) \/ PublishFails(streamer, transport)
       THEN /\ ret' = "raise"
            /\ UNCHANGED transport
       ELSE /\ ret' = "None"
            /\ transport' = [transport EXCEPT !.log = Append(@, Published(channel, message))]
    /\ calls' = <<>>
    /\ UNCHANGED <<order, new_leg, session, tries, pc, ctx, dry, step, sync, merged, resp,
                   returned, concvars, streamer, listener>>

AddDataSub(values) ==
    /\ op' = "add_data_sub"
    /\ SendMsg(values, SUBSCRIPTION_CHANNEL, AddMessage(values))

RemoveDataSub(values) ==
    /\ op' = "remove_data_sub"
    /\ SendMsg(values, SUBSCRIPTION_CHANNEL, RemoveMessage(values))

ResetDataSubs ==
    /\ op' = "reset_data_subs"
    /\ SendMsg(None, SUBSCRIPTION_CHANNEL, ResetMessage)

\* close: cometd_client.close(), which raises while there is no client, and finds
\* nothing to close on a client that is closed
Close ==
    /\ pc = "idle"
    /\ op' = "close"
    /\ before' = Entered(None)
    /\ IF streamer.cometd_client = None
       THEN /\ ret' = "raise"
            /\ UNCHANGED transport
       ELSE /\ ret' = "None"
            /\ transport' = IF transport.state = "closed" THEN transport
                            ELSE [transport EXCEPT !.state = "closed",
                                                   !.log = Append(@, [event |-> "close"])]
    /\ calls' = <<>>
    /\ UNCHANGED <<order, new_leg, session, tries, pc, ctx, dry, step, sync, merged, resp,
                   returned, concvars, streamer, listener>>

\* a message arrives on the open connection
Arrives(msg) ==
    /\ transport.state = "open"
    /\ Len(transport.arrived) < MaxMsgs
    /\ transport' = [transport EXCEPT !.arrived = Append(@, msg)]
    /\ UNCHANGED <<order, new_leg, session, tries, pc, ctx, op, dry, before, calls, ret,
                   step, sync, merged, resp, returned, concvars, streamer, listener>>

\* the consumer asks the generator of listen() for its next item: the generator runs
\* to "async for msg in self.cometd_client", which raises while there is no client
ListenNext ==
    /\ pc = "idle"
    /\ listener.pc \in {"none", "yielded"}
    /\ listener' = [listener EXCEPT
                       !.pc = IF streamer.cometd_client = None THEN "raised" ELSE "waiting"]
    /\ UNCHANGED <<order, new_leg, session, tries, pc, ctx, op, dry, before, calls, ret,
                   step, sync, merged, resp, returned, concvars, streamer, transport>>

\* the client hands the generator its next message: skipped, or decoded and yielded
ListenReceives ==
    /\ listener.pc = "waiting"
    /\ transport.taken < Len(transport.arrived)
    /\ LET msg == transport.arrived[transport.taken + 1]
       IN  /\ transport' = [transport EXCEPT !.taken = @ + 1]
           /\ listener' = IF ListenSkips(msg) THEN listener
                          ELSE [pc |-> "yielded",
                                yielded |-> Append(listener.yielded, Consumer(msg.data))]
    /\ UNCHANGED <<order, new_leg, session, tries, pc, ctx, op, dry, before, calls, ret,
                   step, sync, merged, resp, returned, concvars, streamer>>

\* the closed client ends its iteration: the generator returns
ListenExhausted ==
    /\ listener.pc = "waiting"
    /\ transport.state = "closed"
    /\ listener' = [listener EXCEPT !.pc = "exhausted"]
    /\ UNCHANGED <<order, new_leg, session, tries, pc, ctx, op, dry, before, calls, ret,
                   step, sync, merged, resp, returned, concvars, streamer, transport>>

\* the consumer stops iterating (it breaks out of its loop, or its task is cancelled):
\* the generator is closed where it is suspended; listen has no statement that runs then
ListenStops ==
    /\ listener.pc \in {"waiting", "yielded"}
    /\ listener' = [listener EXCEPT !.pc = "stopped"]
    /\ UNCHANGED <<order, new_leg, session, tries, pc, ctx, op, dry, before, calls, ret,
                   step, sync, merged, resp, returned, concvars, streamer, transport>>

StreamInit ==
    /\ session = LoggedInSession("t1")
    /\ StreamIdle
    /\ ConcIdle
    /\ order = ExampleOrder
    /\ new_leg = SpyLeg
    /\ tries = 0
    /\ pc = "idle"
    /\ ctx = "none"
    /\ op = "none"
    /\ dry = None
    /\ before = Entered(None)
    /\ calls = <<>>
    /\ ret = "None"
    /\ step = "init"
    /\ sync = NoSync
    /\ merged = NoSnapshot
    /\ resp = NoResponse
    /\ returned = NoResponse

StreamNext ==
    \/ StreamerStart
    \/ StreamerIsActiveResponse
    \/ StreamerSessionStartResponse
    \/ GetStreamerInfoResponse
    \/ CometdOpenReturns
    \/ CometdSubscribeReturns
    \/ CometdPublishReturns
    \/ \E values \in SomeValues : AddDataSub(values)
    \/ \E values \in SomeValues : RemoveDataSub(values)
    \/ ResetDataSubs
    \/ Close
    \/ \E msg \in SomeMessages : Arrives(msg)
    \/ ListenNext
    \/ ListenReceives
    \/ ListenExhausted
    \/ ListenStops

StreamSpec == StreamInit /\ [][StreamNext]_vars

-----------------------------------------------------------------------------
(* Properties of the lifecycle methods *)

\* the top-level method has returned or raised
Done == pc = "idle" /\ op # "none"

\* the names of the remote calls cs, in order
Names(cs) == [i \in 1..Len(cs) |-> cs[i].name]

\* how many of the remote calls cs went to the endpoint name
Count(cs, name) == Cardinality({ i \in 1..Len(cs) : cs[i].name = name })

\* C1: route on an order that is not executable returns False, issues no remote call
\* (neither route-order nor the live-orders listing) and leaves every field unchanged.
C1_RouteNotExecutable ==
    (op = "route" /\ ~IsExecutable(before)) =>
        /\ pc = "idle"
        /\ ret = "False"
        /\ calls = <<>>
        /\ order = before

C1_Witness ==
    /\ op = "route" /\ Done
    /\ ~IsExecutable(before)
    /\ before.legs = <<>>
    /\ ret = "False"

\* C2: on an order whose id is None, update, cancel and live_sync each return False,
\* issue no remote call and leave every field unchanged.
C2_NoIdNoRemoteCall ==
    (op \in {"update", "cancel", "live_sync"} /\ before.id = None) =>
        /\ pc = "idle"
        /\ ret = "False"
        /\ calls = <<>>
        /\ order = before

C2_Witness ==
    /\ op = "live_sync" /\ Done
    /\ before.id = None
    /\ IsExecutable(before)
    /\ ret = "False"

\* C3: after update_fields(newer), every field of self holds newer's value when that
\* value is not None and differs from the previous one, and its previous value
\* otherwise: a None never blanks a field (price 100 merged with None stays 100), a
\* changed value always replaces it (price 100 merged with 101.50 becomes 101.50).
C3_FieldMerge ==
    /\ \A k \in OrderFields :
        /\ IsNone(k, merged.newer[k]) => merged.out[k] = merged.self[k]
        /\ ~IsNone(k, merged.newer[k]) => merged.out[k] = merged.newer[k]
    /\ (merged.self.price = "100" /\ merged.newer.price = None) => merged.out.price = "100"
    /\ (merged.self.price = "100" /\ merged.newer.price = "101.5") => merged.out.price = "101.5"
    /\ step \in {"route_order", "cancel_order"} /\ ret # "raise" => order = merged.out

C3_Witness ==
    /\ step = "get_orders_live"
    /\ merged.self.price = "100"
    /\ merged.newer.price = None
    /\ merged.newer.status = "Received"
    /\ order.price = "100"
    /\ order.status = "Received"

\* C4: live_sync on an order with an id returns False and leaves every field of the
\* order unmodified whenever the listing holds no entry, or more than one entry, whose
\* id equals the order's id.
C4_SyncWithoutSingleMatch ==
    (step = "get_orders_live" /\ sync.found # 1) =>
        /\ Truthy(sync.self.id)
        /\ sync.ret = "False"
        /\ order = sync.self
        /\ op = "live_sync" => (pc = "idle" /\ ret = "False")

C4_Witness ==
    /\ op = "live_sync" /\ Done
    /\ step = "get_orders_live"
    /\ sync.found = 2
    /\ ret = "False"
    /\ order = before

\* C5: live_sync with exactly one matching entry (one that parses) merges it into the
\* order and returns True; when the status after the merge is Live, the contingent
\* status is '' on return, whatever contingent status the entry carried.
C5_SyncSingleMatch ==
    (step = "get_orders_live" /\ sync.found = 1 /\ ParseOk(sync.entry)) =>
        /\ sync.ret = "True"
        /\ op = "live_sync" => (pc = "idle" /\ ret = "True")
        /\ merged.self = sync.self
        /\ merged.newer = ParseFromApi(sync.entry)
        /\ \A k \in OrderFields \ {"contingent_status"} : order[k] = merged.out[k]
        /\ order.status = sync.entry.status
        /\ order.status = "Live" => order.contingent_status = ""
        /\ order.status # "Live" => order.contingent_status = merged.out.contingent_status

C5_Witness ==
    /\ op = "live_sync" /\ Done
    /\ step = "get_orders_live"
    /\ sync.found = 1
    /\ sync.entry.status = "Live"
    /\ sync.entry.contingent_status = "Pending Order"
    /\ order.status = "Live"
    /\ order.contingent_status = ""
    /\ ret = "True"

\* C6: cancel invokes the remote cancel endpoint only if the live_sync before it, in
\* the same cancel call, returned True and cancellable is true after that
\* reconciliation; if the reconciliation fails or cancellable is false, cancel returns
\* False without invoking the remote cancel endpoint.
C6_CancelOnlyWhenCancellable ==
    op = "cancel" =>
        /\ pc = "cancel_order" =>
            /\ sync.ret = "True"
            /\ Truthy(order.cancellable)
            /\ Names(calls) = <<"get_orders_live", "cancel_order">>
        /\ Count(calls, "cancel_order") > 0 =>
            /\ Len(calls) >= 2
            /\ calls[1].name = "get_orders_live"
            /\ calls[2].name = "cancel_order"
            /\ Count(calls, "cancel_order") = 1
        /\ (step = "get_orders_live" /\ Count(calls, "get_orders_live") = 1
                /\ (sync.ret = "False" \/ (sync.ret = "True" /\ ~Truthy(order.cancellable)))) =>
            /\ pc = "idle"
            /\ ret = "False"
            /\ Count(calls, "cancel_order") = 0

C6_Witness ==
    /\ op = "cancel" /\ Done
    /\ step = "get_orders_live"
    /\ sync.ret = "True"
    /\ order.cancellable = "False"
    /\ ret = "False"
    /\ Names(calls) = <<"get_orders_live">>

\* C7 as claimed: for an order with an id, cancel returns True if and only if the
\* status is Cancelled when cancel returns.
C7_CancelTrueIffCancelled ==
    (op = "cancel" /\ Done /\ Truthy(before.id) /\ ret \in {"True", "False"}) =>
        (ret = "True" <=> order.status = "Cancelled")

\* C7 as amended: for an order with an id, cancel returns True only if the status is
\* Cancelled when cancel returns; when cancel has invoked the remote cancel endpoint,
\* it returns True if and only if the status is Cancelled when it returns.
C7_CancelTrueOnlyIfCancelled ==
    (op = "cancel" /\ Done /\ Truthy(before.id) /\ ret \in {"True", "False"}) =>
        /\ ret = "True" => order.status = "Cancelled"
        /\ ret = "True" => Count(calls, "cancel_order") = 1
        /\ Count(calls, "cancel_order") > 0 => (ret = "True" <=> order.status = "Cancelled")

C7_Witness ==
    /\ op = "cancel" /\ Done
    /\ Names(calls) = <<"get_orders_live", "cancel_order", "get_orders_live">>
    /\ resp.status = "Cancel Requested"
    /\ order.status = "Cancelled"
    /\ ret = "True"

\* C8, its first half: a route with is_dry_run=True never queries the remote
\* live-orders listing.
C8_DryRunNeverQueriesListing ==
    (op = "route" /\ dry = "True") => Count(calls, "get_orders_live") = 0

\* C9: for an executable order, when route-order is answered by a record that carries
\* a non-empty errors list, route returns (True) and the errors are in the order's
\* errors field after the call; route raises there only for a malformed record met
\* in the reconciliation pass, and the errors are in the order then too.
C9_RejectionInErrorsField ==
    (op = "route" /\ Done /\ IsExecutable(before) /\ IsRouted(resp) /\ ParseOk(resp)
        /\ Truthy(Get(resp, "errors"))) =>
        /\ order.errors = OrderErrors(resp.errors)
        /\ ret = "raise" => sync.ret = "raise"
        /\ ret # "raise" => ret = "True"

C9_Witness ==
    /\ op = "route" /\ Done
    /\ IsExecutable(before)
    /\ IsRouted(resp) /\ resp.errors = "[e1]"
    /\ before.errors = None
    /\ order.errors = "[OrderError(e1)]"
    /\ ret = "True"

\* C10: update sends a route-order request (not a dry run, with the order's current
\* id and field values) only if the id is an integer and editable is true; otherwise
\* it returns False without any remote call and leaves the order unchanged.
C10_UpdateNeedsIdAndEditable ==
    op = "update" =>
        /\ Len(calls) > 0 =>
            /\ IsInt(before.id)
            /\ Truthy(before.editable)
            /\ calls[1] = RouteOrderCall(before, "False")
            /\ Count(calls, "route_order") = 1
        /\ ~(IsInt(before.id) /\ Truthy(before.editable)) =>
            /\ pc = "idle"
            /\ ret = "False"
            /\ calls = <<>>
            /\ order = before

C10_Witness ==
    /\ op = "update" /\ Done
    /\ before.id = "1"
    /\ before.editable = "True"
    /\ Len(calls) > 0
    /\ calls[1].name = "route_order"
    /\ calls[1].is_dry_run = "False"
    /\ calls[1].order_id = "1"
    /\ ret = "True"

-----------------------------------------------------------------------------
(* Properties of the session (under SessionSpec) *)

\* the positions in calls of the calls that went to name
Places(cs, name) == { i \in 1..Len(cs) : cs[i].name = name }

\* C11, its bound: while no attempt of a start has succeeded, start has sent at most
\* 3 (max_retries) session-start requests.
C11_AtMostThreeAttempts ==
    (op = "start" /\ ~Truthy(session.validated)) =>
        Count(calls, "session_start") <= max_retries

\* C12: inside start, no two session-start requests are sent without the backoff
\* sleep in between.
C12_SleepBetweenAttempts ==
    op = "start" =>
        \A i, j \in Places(calls, "session_start") :
            i < j => \E k \in Places(calls, "sleep") : i < k /\ k < j

\* C13: whenever start returns a session, that session has validated = True,
\* logged_in = True and holds a session token: the one start handed to its last
\* validation request, which the remote accepted.
C13_ReturnedSessionValidated ==
    (op = "start" /\ pc = "idle" /\ ret = "session") =>
        /\ session.validated = "True"
        /\ session.logged_in = "True"
        /\ session.session_token \in Tokens
        /\ Places(calls, "session_validate") # {}
        /\ LET last == CHOOSE i \in Places(calls, "session_validate") :
                            \A j \in Places(calls, "session_validate") : j <= i
           IN  /\ session.session_token = calls[last].session_token
               /\ \A k \in Places(calls, "sleep") : k < last

C13_Witness ==
    /\ op = "start" /\ pc = "idle"
    /\ ret = "session"
    /\ Count(calls, "sleep") = 1
    /\ Count(calls, "session_start") = 3
    /\ session.validated = "True"
    /\ session.session_token = "t2"

\* C14: is_active asks the remote to validate the stored token; on a negative answer
\* it clears the session (no token, logged_in False, validated False) and returns
\* False; on a positive answer it returns True and leaves session_token and
\* logged_in as they were.
C14_IsActiveRevalidates ==
    op = "is_active" =>
        /\ Len(calls) = 1
        /\ calls[1] = SessionValidateCall(before)
        /\ pc = "idle" =>
            /\ resp.code # Created =>
                /\ ret = "False"
                /\ session.session_token = None
                /\ session.logged_in = "False"
                /\ session.validated = "False"
            /\ resp.code = Created =>
                /\ ret = "True"
                /\ session.session_token = before.session_token
                /\ session.logged_in = before.logged_in

C14_Witness ==
    /\ op = "is_active" /\ pc = "idle"
    /\ before.session_token = "t1"
    /\ before.validated = "True"
    /\ resp.code # Created
    /\ ret = "False"
    /\ session.session_token = None
    /\ session.logged_in = "False"

-----------------------------------------------------------------------------
(* Properties of the validation methods (under ExecSpec) *)

\* C15: Leg.is_executable() is True if and only if the instrument type is set, the
\* symbol is set and not empty, the action is set and the quantity is set and
\* positive.
C15_LegExecutableIff ==
    op = "Leg.is_executable" =>
        (ret = "True" <=>
            /\ new_leg.instrument_type # None
            /\ new_leg.symbol \notin {None, ""}
            /\ new_leg.action # None
            /\ new_leg.quantity \notin {None, "0", "-1"})

\* C16: Order.is_executable() is False when the list of legs is empty, whatever the
\* other fields hold.
C16_NoLegsNotExecutable ==
    (op = "is_executable" /\ order.legs = <<>>) => ret = "False"

C16_Witness ==
    /\ op = "is_executable"
    /\ order.legs = <<>>
    /\ order.type = "Limit" /\ order.time_in_force = "Day"
    /\ order.price = "100" /\ order.price_effect = "Debit"
    /\ ret = "False"

\* C17: Order.is_executable() is False for an order whose type is not Market when
\* the price or the price effect is None.
C17_PriceNeededUnlessMarket ==
    (op = "is_executable" /\ order.type # "Market"
        /\ (order.price = None \/ order.price_effect = None)) => ret = "False"

\* C18: Order.is_executable() is False when the type is Stop or Stop Limit and the
\* stop trigger is None, and False when the time in force is GTD and the
\* good-till-date is None.
C18_StopTriggerAndGtcDate ==
    op = "is_executable" =>
        /\ (order.type \in {"Stop", "Stop Limit"} /\ order.stop_trigger = None)
                => ret = "False"
        /\ (order.time_in_force = "GTD" /\ order.gtc_date = None) => ret = "False"

C18_Witness ==
    /\ op = "is_executable"
    /\ order.type = "Stop" /\ order.stop_trigger = None
    /\ order.time_in_force = "Day"
    /\ order.price = "100" /\ order.price_effect = "Debit"
    /\ order.legs = <<SpyLeg>>
    /\ ret = "False"

\* C19: Order.is_executable() returns True only if every leg of the order satisfies
\* Leg.is_executable(), however the leg came into the order.
C19_EveryLegExecutable ==
    (op = "is_executable" /\ ret = "True") =>
        \A i \in 1..Len(order.legs) : LegIsExecutable(order.legs[i])

\* C31: add_leg returns True if and only if the leg's is_executable() holds; it then
\* has appended the leg at the end of the legs, the legs that were there keeping their
\* places; otherwise it returns False and the legs are as they were. No other field
\* of the order changes.
C31_AddLegAppendsIffExecutable ==
    op = "add_leg" =>
        /\ ret \in {"True", "False"}
        /\ ret = "True" <=> LegIsExecutable(new_leg)
        /\ ret = "True" =>
              /\ Len(order.legs) = Len(before.legs) + 1
              /\ order.legs[Len(order.legs)] = new_leg
              /\ \A i \in 1..Len(before.legs) : order.legs[i] = before.legs[i]
        /\ ret = "False" => order.legs = before.legs
        /\ \A k \in DOMAIN order \ {"legs"} : order[k] = before[k]

\* a leg was added behind a different leg
C31_Witness ==
    /\ op = "add_leg" /\ ret = "True"
    /\ Len(before.legs) = 1
    /\ order.legs[1] # order.legs[2]

\* C24: the output of to_order_json is a function of the order's fields: it has a
\* stop-trigger entry if and only if the type is Stop or Stop Limit, a good-till-date
\* entry if and only if the time in force is GTD, and lists the legs in the order of
\* the order's legs.
C24_ToOrderJsonShape ==
    (op = "to_order_json" /\ ret # "raise") =>
        /\ "stop_trigger" \in DOMAIN returned <=> order.type \in {"Stop", "Stop Limit"}
        /\ "gtc_date" \in DOMAIN returned <=> order.time_in_force = "GTD"
        /\ Len(returned.legs) = Len(order.legs)
        /\ \A i \in 1..Len(order.legs) :
            /\ returned.legs[i].symbol = order.legs[i].symbol
            /\ returned.legs[i].quantity = order.legs[i].quantity
            /\ returned.legs[i].action = order.legs[i].action
            /\ returned.legs[i].instrument_type = order.legs[i].instrument_type
        /\ returned.order_type = order.type
        /\ returned.time_in_force = order.time_in_force

C24_Witness ==
    /\ op = "to_order_json" /\ ret # "raise"
    /\ order.type = "Limit" /\ order.time_in_force = "GTD"
    /\ Len(order.legs) = 2
    /\ order.legs[1].quantity = "1" /\ order.legs[2].quantity = "-1"
    /\ returned.legs[2].quantity = "-1"
    /\ "gtc_date" \in DOMAIN returned
    /\ "stop_trigger" \notin DOMAIN returned

-----------------------------------------------------------------------------
(* Properties of parse_from_api (under ParseSpec) *)

\* the fields parse_from_api fills from the envelope, not from the order record
EnvelopeFields == {"bp", "fees", "warnings", "errors"}

\* C25 as claimed: parse_from_api of the bare record and of the envelope around the
\* same record yield Orders with identical field values.
C25_ShapesParseIdentically ==
    (op = "parse_from_api" /\ ret # "raise") => returned.bare = returned.wrapped

\* C25 as amended: the two Orders agree on every field read from the order record;
\* bp, fees, warnings and errors are None in the Order parsed from the bare record
\* and hold what the envelope carries in the Order parsed from the envelope, so the
\* two Orders are identical exactly when the envelope carries none of the four.
C25_ShapesAgreeOnRecordFields ==
    (op = "parse_from_api" /\ ret # "raise") =>
        /\ \A k \in OrderFields \ EnvelopeFields : returned.bare[k] = returned.wrapped[k]
        /\ \A k \in EnvelopeFields : returned.bare[k] = None
        /\ returned.wrapped.bp = resp.buying_power_effect
        /\ returned.wrapped.fees = resp.fee_calculation
        /\ returned.wrapped.warnings = OrderWarnings(resp.warnings)
        /\ returned.wrapped.errors = OrderErrors(resp.errors)
        /\ returned.bare = returned.wrapped <=>
                /\ resp.buying_power_effect = None /\ resp.fee_calculation = None
                /\ resp.warnings = None /\ resp.errors = None

C25_Witness ==
    /\ op = "parse_from_api" /\ ret # "raise"
    /\ resp.order.id = "1" /\ resp.order.price = "101.50"
    /\ resp.fee_calculation = "fees1" /\ resp.errors = "[e1]"
    /\ returned.bare.price = "101.5" /\ returned.wrapped.price = "101.5"
    /\ returned.bare.fees = None /\ returned.wrapped.fees = "fees1"
    /\ returned.wrapped.errors = "[OrderError(e1)]"

-----------------------------------------------------------------------------
(* Properties of the order across calls (under Spec) *)

\* C20: in every state reachable by route (dry-run or live), update, cancel and
\* live_sync calls, an order whose is_dry_run flag is True has no id.
C20_DryRunHasNoId ==
    order.is_dry_run = "True" => order.id = None

\* C26: total_fees returns the total-fees magnitude of the fee breakdown, unchanged
\* when the effect is Credit and negated when it is Debit (1.25 with Debit gives
\* -1.25), and raises when the order holds no fee breakdown (fees is None, as before
\* any route call); it leaves the order unchanged.
C26_TotalFeesSigned ==
    op = "total_fees" =>
        /\ pc = "idle" /\ calls = <<>> /\ order = before
        /\ order.fees = None => ret = "raise"
        /\ order.fees # None =>
            LET fees == FeeCalculation(order.fees) IN
            /\ fees.total_fees_effect = "Credit" => ret = fees.total_fees
            /\ fees.total_fees_effect = "Debit" => ret = "-" \o fees.total_fees
        /\ order.fees = "fees1" => ret = "-1.25"

C26_Witness ==
    /\ op = "total_fees" /\ Done
    /\ order.is_dry_run = "True"
    /\ FeeCalculation(order.fees) = [total_fees |-> "1.25", total_fees_effect |-> "Debit"]
    /\ ret = "-1.25"

\* the record data carries a status, order type, time in force, instrument type or
\* leg action outside the enumerations
UnknownWireValue(data) ==
    LET o == RecordOf(data) IN
    \/ Get(o, "status") \notin OrderStatus
    \/ Get(o, "order_type") \notin OrderType
    \/ Get(o, "time_in_force") \notin TimeInForce
    \/ Get(o, "underlying_instrument_type") \notin InstrumentType
    \/ \E i \in 1..Len(o.legs) :
        \/ Get(o.legs[i], "instrument_type") \notin InstrumentType
        \/ Get(o.legs[i], "action") \notin OrderAction

\* C27: when the record that route, cancel or live_sync is parsing carries a value
\* outside the enumerations, the method raises and the order receives none of that
\* record's fields: it is as it was before the record was parsed.
C27_UnknownValueNoMerge ==
    /\ (step = "route_order" /\ UnknownWireValue(resp)) =>
            (pc = "idle" /\ ret = "raise" /\ order = before)
    /\ (step = "cancel_order" /\ UnknownWireValue(resp)) =>
            (pc = "idle" /\ ret = "raise" /\ order = ClearContingent(merged.out))
    /\ (step = "get_orders_live" /\ sync.found = 1 /\ UnknownWireValue(sync.entry)) =>
            (pc = "idle" /\ ret = "raise" /\ sync.ret = "raise" /\ order = sync.self)

C27_Witness ==
    /\ op = "cancel" /\ Done
    /\ step = "cancel_order"
    /\ resp.status = "Cancelled" /\ resp.legs[1].action = "Bogus"
    /\ ret = "raise"
    /\ order.status = "Live"
    /\ order.legs[1].fills = "[]"

\* the id parse_from_api reads from the record data
IdOf(data) == IF Truthy(Get(RecordOf(data), "id")) THEN Get(RecordOf(data), "id") ELSE None

\* C21 as claimed: route with is_dry_run=True on the unrouted Limit/Day order of the
\* example (price 100, Debit, one SPY buy-to-open leg) returns True and leaves the
\* order with an id and a status.
C21_DryRunPopulatesIdAndStatus ==
    (op = "route" /\ dry = "True" /\ before = ExampleOrder /\ Done /\ ret # "raise") =>
        /\ ret = "True"
        /\ order.id # None
        /\ order.status # None

\* C21 as amended: the example order is executable; route with is_dry_run=True on it,
\* answered by a record that parses, returns True (or raises in its reconciliation
\* pass) and leaves the order flagged as a dry run with a status; the order has an
\* id afterwards exactly when that answer carries one.
C21_DryRunPopulatesStatus ==
    (op = "route" /\ dry = "True" /\ before = ExampleOrder) =>
        /\ IsExecutable(before)
        /\ Len(calls) > 0 /\ calls[1] = RouteOrderCall(before, "True")
        /\ (Done /\ ParseOk(resp)) =>
            /\ ret = "True" \/ (ret = "raise" /\ sync.ret = "raise")
            /\ order.is_dry_run = "True"
            /\ order.status \in OrderStatus
            /\ order.id = IdOf(resp)
            /\ order.id = None => order.status = RecordOf(resp).status

C21_Witness ==
    /\ op = "route" /\ dry = "True" /\ before = ExampleOrder /\ Done
    /\ IsRouted(resp) /\ resp.order.id = None
    /\ ret = "True"
    /\ order.id = None
    /\ order.status = "Received"
    /\ order.is_dry_run = "True"
    /\ Names(calls) = <<"route_order">>

\* the statuses after which the remote system does not change an order any more
Terminal == {"Cancelled", "Filled", "Expired", "Rejected"}

\* C22: once the status of an order is Cancelled, Filled, Expired or Rejected, no
\* route, update, cancel or live_sync call on that order changes its status.
C22_TerminalAbsorbing ==
    (op \in {"route", "update", "cancel", "live_sync"} /\ before.status \in Terminal) =>
        order.status = before.status

-----------------------------------------------------------------------------
(* Properties of overlapping live_sync calls (under ConcSpec) *)

\* the legs of the order as the remote system held them after n fills, parsed
LegsAt(n) == <<Leg("Equity", "SPY", "Buy to Open", "3", FillTokens[n + 1], RemainingTokens[n + 1])>>

\* C23: after every successful live_sync the legs of the order are those of the
\* listing that call read, whatever the order held before: the merge that runs last
\* wins without a version check, so when two calls overlap and the older listing is
\* merged last the legs end as those of the older listing.
C23_LastMergeWins ==
    (step = "get_orders_live" /\ sync.ret = "True") =>
        /\ order.legs = LegsAt(resp.version)
        /\ merged.self = sync.self
        /\ resp.version <= remote

C23_Witness ==
    /\ step = "get_orders_live" /\ sync.ret = "True"
    /\ resp.version = 0
    /\ sync.self.legs = LegsAt(1)
    /\ order.legs = LegsAt(0)
    /\ remote >= 1
    /\ \A t \in Tasks : tasks[t].pc = "idle" /\ tasks[t].ret = "True"

-----------------------------------------------------------------------------
(* Properties of the DataStreamer *)

\* the messages the client has handed to the generator of listen(), in arrival order
HandedOver == SubSeq(transport.arrived, 1, transport.taken)

\* the data-channel messages among ms, in their order
OnDataChannel(ms) == SelectSeq(ms, LAMBDA m : m.channel = DATA_CHANNEL)

\* C28: what listen has yielded is exactly the decoded data of the messages that
\* arrived on the data channel and were handed over to it, in their arrival order;
\* a message tagged with another channel yields nothing
C28_ListenYieldsDataChannelInOrder ==
    LET kept == OnDataChannel(HandedOver)
    IN  listener.yielded = [i \in 1..Len(kept) |-> <<"map_message", kept[i].data>>]

\* a message of another channel was handed over between two data messages that differ
C28_Witness ==
    /\ transport.taken = 3
    /\ HandedOver[1].channel = DATA_CHANNEL
    /\ HandedOver[2].channel # DATA_CHANNEL
    /\ HandedOver[3].channel = DATA_CHANNEL
    /\ HandedOver[1].data # HandedOver[3].data
    /\ Len(listener.yielded) = 2

\* C29: whenever the iteration of listen has been stopped by its consumer, the
\* transport connection is closed
C29_StoppedListenClosesTransport ==
    listener.pc = "stopped" => transport.state = "closed"

\* the streamer as a caller holds it before any connection: built by DataStreamer()
NotSetUp == before.state = "none"

\* the message the subscription method name sends for the argument values
ControlMessage(name, values) ==
    CASE name = "add_data_sub"    -> [key |-> "add", value |-> values]
      [] name = "remove_data_sub" -> [key |-> "remove", value |-> values]
      [] name = "reset_data_subs" -> [key |-> "reset", value |-> "True"]

\* C30: a call of add_data_sub, remove_data_sub or reset_data_subs that returns has
\* published exactly one message, on the subscription-control channel, of the form
\* {add: values}, {remove: values}, {reset: true}, on a connection that was open; a call
\* that fails has published nothing; and a call made before the connection is set up
\* fails
C30_OneControlMessageOnConnection ==
    (op \in {"add_data_sub", "remove_data_sub", "reset_data_subs"}) =>
        /\ ret \in {"None", "raise"}
        /\ ret = "None" =>
              /\ before.state = "open"
              /\ transport.log =
                    Append(before.log,
                           [event |-> "publish", channel |-> SUBSCRIPTION_CHANNEL,
                            message |-> ControlMessage(op, before.values)])
        /\ ret = "raise" => transport.log = before.log
        /\ NotSetUp => ret = "raise"

\* a remove was published on the open connection, after the reset of its set-up
C30_Witness ==
    /\ op = "remove_data_sub" /\ ret = "None"
    /\ Len(before.log) = 3
    /\ before.log[3].message.key = "reset"
    /\ transport.log[4].message.key = "remove"

\* a subscription call made on a streamer with no connection failed
C30_WitnessBefore ==
    op = "add_data_sub" /\ NotSetUp /\ ret = "raise" /\ transport.log = <<>>

\* C32: the events of the connection begin with its opening, then the subscription to
\* the data channel, then the publication of a reset on the subscription-control
\* channel; start has returned only after all three; and every add or remove message
\* published comes after that reset
C32_SetupOrder ==
    LET log == transport.log
    IN  /\ Len(log) >= 1 => log[1] = [event |-> "open"]
        /\ Len(log) >= 2 => log[2] = [event |-> "subscribe", channel |-> DATA_CHANNEL]
        /\ Len(log) >= 3 =>
              log[3] = [event |-> "publish", channel |-> SUBSCRIPTION_CHANNEL,
                        message |-> [key |-> "reset", value |-> "True"]]
        /\ (op = "start" /\ ret = "streamer") => Len(log) = 3
        /\ \A i \in 1..Len(log) :
              (log[i].event = "publish" /\ log[i].message.key \in {"add", "remove"})
                  => i > 3

\* start has returned the streamer and an add was published on its connection
C32_Witness ==
    /\ Len(transport.log) = 4
    /\ transport.log[4].event = "publish"
    /\ transport.log[4].message.key = "add"
    /\ streamer.logged_in = "True"

\* C33: a route on an order that is_executable() accepted has reached the route-order
\* call, and has not raised before it
C33_ExecutableOrderIsSubmitted ==
    (op = "route" /\ pc = "idle" /\ IsExecutable(before)) =>
        /\ Len(calls) >= 1
        /\ calls[1].name = "route_order"

\* C34: inside start, no session-start request is awaited once the session of this
\* start has been validated
C34_NoLoginOnceValidated ==
    (op = "start" /\ session.validated = "True") => pc # "session_start"

\* C35: every get_streamer_info request of DataStreamer.start carries a session token,
\* and the session the streamer holds has one from then on
C35_StreamerInfoWithToken ==
    op = "start" =>
        \A i \in Places(calls, "get_streamer_info") :
            /\ calls[i].session_token # None
            /\ session.session_token # None

\* C36: whenever a coroutine can run (the states are those at the suspension points of
\* the live_sync calls), the order is not partially merged: the fields a fill changes,
\* the legs and the time of update, are those of one and the same version of the remote
\* record; and the order left by a merge is that merge's whole result
C36_NoPartialMerge ==
    /\ \E n \in 0..remote :
          /\ order.legs = LegsAt(n)
          /\ order.updated_at = "dt(157795920000" \o RemainingTokens[n + 1] \o ")"
    /\ (step = "get_orders_live" /\ sync.ret = "True") =>
          \A k \in DOMAIN order \ {"contingent_status"} : order[k] = merged.newer[k]
                                                            \/ merged.newer[k] = None

\* a merge changed the legs and the time of update of the order while the other
\* live_sync was suspended on its request
C36_Witness ==
    /\ step = "get_orders_live" /\ sync.ret = "True"
    /\ order.legs # sync.self.legs
    /\ order.updated_at # sync.self.updated_at
    /\ \E t \in Tasks : tasks[t].pc \in {"get_orders_live", "answered"}

\* C37: route, update, cancel and live_sync leave the source of the order as the
\* caller set it
C37_SourceKept ==
    op \in {"route", "update", "cancel", "live_sync"} => order.source = before.source

\* C38: after a route that returned True, the errors and the warnings of the order are
\* those of the answer to that route: none when the answer carries none
C38_ErrorsFromLastRoute ==
    (op = "route" /\ Done /\ ret = "True") =>
        /\ order.errors = IF Get(resp, "errors") = None THEN None
                          ELSE OrderErrors(resp.errors)
        /\ order.warnings = IF Get(resp, "warnings") = None THEN None
                            ELSE OrderWarnings(resp.warnings)

\* C39: is_live (is_received) has returned True only if the live_sync of that call
\* found the order in the listing, with the status Live (Received)
C39_StatusFromThisCall ==
    (op \in {"is_live", "is_received"} /\ Done /\ ret = "True") =>
        /\ sync.ret = "True"
        /\ sync.entry.status = IF op = "is_live" THEN "Live" ELSE "Received"

=============================================================================
